---- MODULE Spec2Model ----
(***************************************************************************)
(* Bootstrap and teardown of the Vulkan context of rust-vulkan:            *)
(* App::create (instance, surface, physical device selection, logical      *)
(* device, swapchain and image views), the winit event loop of main, and   *)
(* App::destroy.  The driver is the environment: every native query or     *)
(* creation call answers nondeterministically from a bounded set.          *)
(***************************************************************************)
EXTENDS Integers, Sequences, FiniteSets, TLC

\* ---------------------------------------------------------------- bounds
\* width in bits of the model's u32 (the code's is 32)
Width == 2
\* number of physical devices the driver may enumerate
MaxDevices == 2
\* number of queue families a physical device may report
MaxFamilies == 2
\* number of events the event loop delivers
MaxEvents == 3
\* length of the format and present-mode lists the negotiation is run on
MaxList == 2
\* largest extent component below u32::MAX the negotiation is run on
MaxExtent == 2

U32_MAX == (2 ^ Width) - 1
U32 == 0 .. U32_MAX

\* Option<u32>::None
None == -1

VALIDATION_ENABLED == TRUE

\* ------------------------------------------------ what the driver reports
\* one vk::QueueFamilyProperties together with the answer of
\* get_physical_device_surface_support_khr for that family on the surface
QueueFamily == [graphics : BOOLEAN, support : {"true", "false", "err"}]

QueueFamilyLists == UNION {[1 .. n -> QueueFamily] : n \in 0 .. MaxFamilies}

\* what the same device reports when its families are queried again: the
\* properties are those of the device, and a surface-support query
\* answers as before or fails this time
LaterFamilies(families) ==
  {later \in [1 .. Len(families) -> QueueFamily] :
     \A i \in 1 .. Len(families) :
       /\ later[i].graphics = families[i].graphics
       /\ later[i].support \in {families[i].support, "err"}}

\* everything a physical device answers to the queries of the prober
PhysicalDevice ==
  [discrete : BOOLEAN,
   geometry_shader : BOOLEAN,
   families : QueueFamilyLists,
   extensions : {"all", "missing", "err"},
   capabilities : {"ok", "err"},
   formats : {"some", "empty", "err"},
   present_modes : {"some", "empty", "err"}]

NoDevice ==
  [discrete |-> FALSE, geometry_shader |-> FALSE, families |-> <<>>,
   extensions |-> "missing", capabilities |-> "err", formats |-> "err",
   present_modes |-> "err"]

\* ------------------------------------------------------ error values
\* anyhow::Error: kind "suitability" is a SuitabilityError, kind "native" a
\* failed vk call, kind "other" any other anyhow!() message
Ok == [kind |-> "ok", reason |-> ""]
Suitability(msg) == [kind |-> "suitability", reason |-> msg]
Native == [kind |-> "native", reason |-> "vk error"]
Other(msg) == [kind |-> "other", reason |-> msg]

\* ------------------------------------------------ QueueFamilyIndices::get
\* variant: the last graphics family instead of the first
GraphicsPosition_last(families) ==
  LET hits == {i \in 1 .. Len(families) : families[i].graphics}
  IN IF hits = {} THEN None
     ELSE (CHOOSE i \in hits : \A j \in hits : i >= j) - 1

\* properties.iter().position(|p| p.queue_flags.contains(GRAPHICS))
GraphicsPosition(families) ==
  LET hits == {i \in 1 .. Len(families) : families[i].graphics}
  IN IF hits = {} THEN None
     ELSE (CHOOSE i \in hits : \A j \in hits : i <= j) - 1

\* the for loop over the families: it stops at the first family whose
\* surface-support query does not answer false (true: break, error: ?)
PresentStop(families) ==
  LET hits == {i \in 1 .. Len(families) : families[i].support # "false"}
  IN IF hits = {} THEN 0 ELSE CHOOSE i \in hits : \A j \in hits : i <= j

QueueFamilyIndices_get(families) ==
  LET graphics == GraphicsPosition(families)
      stop == PresentStop(families)
      asked == IF stop = 0 THEN Len(families) ELSE stop
      present == IF stop # 0 /\ families[stop].support = "true"
                 THEN stop - 1 ELSE None
  IN IF stop # 0 /\ families[stop].support = "err"
     THEN [res |-> Native, graphics |-> None, present |-> None,
           asked |-> asked]
     ELSE IF graphics # None /\ present # None
     THEN [res |-> Ok, graphics |-> graphics, present |-> present,
           asked |-> asked]
     ELSE [res |-> Suitability("Missing required queue families"),
           graphics |-> None, present |-> None, asked |-> asked]

\* no run of QueueFamilyIndices::get yet
NoIndices ==
  [res |-> [kind |-> "none", reason |-> ""], graphics |-> None,
   present |-> None, asked |-> 0]

\* ------------------------------------ App::check_physical_device_extensions
check_physical_device_extensions(d) ==
  IF d.extensions = "err" THEN Native
  ELSE IF d.extensions = "all" THEN Ok
  ELSE Suitability("Device does not have required extensions")

\* ---------------------------------------------------- SwapchainSupport::get
\* the three surface queries in field order, each with ?; c, f, m are the
\* outcomes "ok" / "err" of the capabilities, formats and present-mode query
SwapchainSupport_get(c, f, m) ==
  IF c = "err" THEN [res |-> Native, queries |-> <<"capabilities">>]
  ELSE IF f = "err"
  THEN [res |-> Native, queries |-> <<"capabilities", "formats">>]
  ELSE IF m = "err"
  THEN [res |-> Native,
        queries |-> <<"capabilities", "formats", "present_modes">>]
  ELSE [res |-> Ok,
        queries |-> <<"capabilities", "formats", "present_modes">>]

QueryOutcome(x) == IF x = "err" THEN "err" ELSE "ok"

DeviceSupport(d) ==
  SwapchainSupport_get(d.capabilities, QueryOutcome(d.formats),
                       QueryOutcome(d.present_modes))

\* the native queries one run of QueueFamilyIndices::get performs
FamilyQueries(families) ==
  <<"queue_families">> \o
  [i \in 1 .. QueueFamilyIndices_get(families).asked |-> "surface_support"]

\* ------------------------------------------------ App::check_physical_device
\* variant: the extension check placed before the queue-family resolution
check_physical_device_extensions_first(d) ==
  LET indices == QueueFamilyIndices_get(d.families)
      ext == check_physical_device_extensions(d)
      support == DeviceSupport(d)
      q1 == <<"properties">>
      q2 == q1 \o <<"features">>
      q3 == q2 \o <<"extensions">>
      q4 == q3 \o FamilyQueries(d.families)
      q5 == q4 \o support.queries
  IN IF ~d.discrete
     THEN [res |-> Suitability("Only discrete GPUs supported"),
           queries |-> q1, indices |-> NoIndices]
     ELSE IF ~d.geometry_shader
     THEN [res |-> Suitability("Missing geometry shader support"),
           queries |-> q2, indices |-> NoIndices]
     ELSE IF ext.kind # "ok"
     THEN [res |-> ext, queries |-> q3, indices |-> NoIndices]
     ELSE IF indices.res.kind # "ok"
     THEN [res |-> indices.res, queries |-> q4, indices |-> indices]
     ELSE IF support.res.kind # "ok"
     THEN [res |-> support.res, queries |-> q5, indices |-> indices]
     ELSE IF d.formats = "empty" \/ d.present_modes = "empty"
     THEN [res |-> Suitability("Insuficient swapchain support"),
           queries |-> q5, indices |-> indices]
     ELSE [res |-> Ok, queries |-> q5, indices |-> indices]

\* variant: the geometry-shader check placed after the queue-family resolution
check_physical_device_geometry_late(d) ==
  LET indices == QueueFamilyIndices_get(d.families)
      ext == check_physical_device_extensions(d)
      support == DeviceSupport(d)
      q1 == <<"properties">>
      q2 == q1 \o FamilyQueries(d.families)
      q3 == q2 \o <<"features">>
      q4 == q3 \o <<"extensions">>
      q5 == q4 \o support.queries
  IN IF ~d.discrete
     THEN [res |-> Suitability("Only discrete GPUs supported"),
           queries |-> q1, indices |-> NoIndices]
     ELSE IF indices.res.kind # "ok"
     THEN [res |-> indices.res, queries |-> q2, indices |-> indices]
     ELSE IF ~d.geometry_shader
     THEN [res |-> Suitability("Missing geometry shader support"),
           queries |-> q3, indices |-> indices]
     ELSE IF ext.kind # "ok"
     THEN [res |-> ext, queries |-> q4, indices |-> indices]
     ELSE IF support.res.kind # "ok"
     THEN [res |-> support.res, queries |-> q5, indices |-> indices]
     ELSE IF d.formats = "empty" \/ d.present_modes = "empty"
     THEN [res |-> Suitability("Insuficient swapchain support"),
           queries |-> q5, indices |-> indices]
     ELSE [res |-> Ok, queries |-> q5, indices |-> indices]

\* res: what the prober returns; queries: the native queries it made, in
\* order; indices: what its run of QueueFamilyIndices::get returned
check_physical_device(d) ==
  LET indices == QueueFamilyIndices_get(d.families)
      ext == check_physical_device_extensions(d)
      support == DeviceSupport(d)
      q1 == <<"properties">>
      q2 == q1 \o <<"features">>
      q3 == q2 \o FamilyQueries(d.families)
      q4 == q3 \o <<"extensions">>
      q5 == q4 \o support.queries
  IN IF ~d.discrete
     THEN [res |-> Suitability("Only discrete GPUs supported"),
           queries |-> q1, indices |-> NoIndices]
     ELSE IF ~d.geometry_shader
     THEN [res |-> Suitability("Missing geometry shader support"),
           queries |-> q2, indices |-> NoIndices]
     ELSE IF indices.res.kind # "ok"
     THEN [res |-> indices.res, queries |-> q3, indices |-> indices]
     ELSE IF ext.kind # "ok"
     THEN [res |-> ext, queries |-> q4, indices |-> indices]
     ELSE IF support.res.kind # "ok"
     THEN [res |-> support.res, queries |-> q5, indices |-> indices]
     ELSE IF d.formats = "empty" \/ d.present_modes = "empty"
     THEN [res |-> Suitability("Insuficient swapchain support"),
           queries |-> q5, indices |-> indices]
     ELSE [res |-> Ok, queries |-> q5, indices |-> indices]

\* variant: only a SuitabilityError makes the loop go on
SkipsDevice_suitability_only(res) == res.kind = "suitability"

\* the if let Err(error) = ... of pick_physical_device: TRUE when the loop
\* goes on to the next device, FALSE when the device is selected
SkipsDevice(res) == res.kind # "ok"

NoCheck == [res |-> Ok, queries |-> <<>>, indices |-> NoIndices]

\* ------------------------------------------- App::create_logical_device
\* variant: the queues are fetched from family 0
get_device_queue_of_family_0(family) == [family |-> 0, index |-> 0]

\* the HashSet of the two indices: one entry per distinct family
UniqueIndices(indices) == {indices.graphics, indices.present}

\* vk::DeviceQueueCreateInfo for one family: queue_priorities is &[1.0]
DeviceQueueCreateInfo(i) ==
  [queue_family_index |-> i, queue_priorities |-> <<1>>]

\* variant: one entry per index, equal or not
QueueCreateInfos_per_index(indices) ==
  {<<DeviceQueueCreateInfo(indices.graphics),
     DeviceQueueCreateInfo(indices.present)>>}

\* queue_infos: one entry per element of unique_indices, in the order the
\* HashSet iterates, which is any order
QueueCreateInfos(indices) ==
  LET unique_indices == UniqueIndices(indices)
      n == Cardinality(unique_indices)
      orders == {f \in [1 .. n -> unique_indices] :
                   {f[k] : k \in 1 .. n} = unique_indices}
  IN {[k \in 1 .. n |-> DeviceQueueCreateInfo(f[k])] : f \in orders}

\* device.get_device_queue(family, 0)
get_device_queue(family) == [family |-> family, index |-> 0]

NoQueue == [family |-> None, index |-> None]

\* --------------------------------------------------- surface negotiation
PreferredFormat ==
  [format |-> "B8G8R8A8_SRGB", color_space |-> "SRGB_NONLINEAR"]
OtherFormat ==
  [format |-> "R8G8B8A8_UNORM", color_space |-> "SRGB_NONLINEAR"]
\* the preferred format in another color space
HalfFormat ==
  [format |-> "B8G8R8A8_SRGB", color_space |-> "EXTENDED_SRGB_LINEAR"]
NoFormat == [format |-> "UNDEFINED", color_space |-> "UNDEFINED"]

\* the supported-format lists and present-mode lists the surface may report
FormatLists ==
  {<<>>, <<OtherFormat, PreferredFormat>>}
PresentModeLists ==
  {<<>>, <<"IMMEDIATE", "MAILBOX">>}

\* every list of up to MaxList entries
ListsOf(S) == UNION {[1 .. n -> S] : n \in 0 .. MaxList}
AllFormatLists == ListsOf({PreferredFormat, OtherFormat, HalfFormat})
AllPresentModeLists == ListsOf({"FIFO", "MAILBOX", "IMMEDIATE"})

Extent2D(w, h) == [width |-> w, height |-> h]

\* vk::SurfaceCapabilitiesKHR, the fields the builder reads; a driver
\* reports max_image_count = 0 (no limit) or max_image_count >= min_image_count
Capabilities ==
  {c \in [min_image_count : U32,
          max_image_count : U32,
          current_extent : {Extent2D(1, 2), Extent2D(U32_MAX, U32_MAX)},
          min_image_extent : {Extent2D(1, 1)},
          max_image_extent : {Extent2D(2, 2)},
          current_transform : {"IDENTITY"}] :
     c.max_image_count = 0 \/ c.max_image_count >= c.min_image_count}

\* window.inner_size()
WindowSizes == {Extent2D(0, U32_MAX)}

NoSize == Extent2D(0, 0)

\* extent components: the small ones and u32::MAX
ExtentValues == (0 .. MaxExtent) \cup {U32_MAX}
AllSizes == {Extent2D(w, h) : w \in ExtentValues, h \in ExtentValues}

\* capabilities with every current extent and every pair of extent bounds
\* a driver reports (min <= max on each axis)
ExtentCapabilities ==
  {c \in [min_image_count : {1},
          max_image_count : {0},
          current_extent :
            {Extent2D(w, h) : w \in ExtentValues, h \in {0, U32_MAX}},
          min_image_extent : AllSizes,
          max_image_extent : AllSizes,
          current_transform : {"IDENTITY"}] :
     /\ c.min_image_extent.width <= c.max_image_extent.width
     /\ c.min_image_extent.height <= c.max_image_extent.height}

NoCapabilities ==
  [min_image_count |-> 0, max_image_count |-> 0,
   current_extent |-> Extent2D(0, 0), min_image_extent |-> Extent2D(0, 0),
   max_image_extent |-> Extent2D(0, 0), current_transform |-> "IDENTITY"]

NoSupport ==
  [capabilities |-> NoCapabilities, formats |-> <<>>, present_modes |-> <<>>]

\* capabilities of a surface with a fixed extent and no upper image count
PlainCapabilities ==
  [min_image_count |-> 1, max_image_count |-> 0,
   current_extent |-> Extent2D(1, 2), min_image_extent |-> Extent2D(1, 1),
   max_image_extent |-> Extent2D(2, 2), current_transform |-> "IDENTITY"]

\* what SwapchainSupport::get returns to the prober for device d: the
\* report behind the answers of d
SelectionSupport(d) ==
  IF DeviceSupport(d).res.kind # "ok" THEN NoSupport
  ELSE [capabilities |-> PlainCapabilities,
        formats |-> IF d.formats = "empty" THEN <<>> ELSE <<OtherFormat>>,
        present_modes |->
          IF d.present_modes = "empty" THEN <<>> ELSE <<"FIFO">>]

\* formats.iter().cloned().find(preferred).unwrap_or_else(|| formats[0]);
\* formats[0] of an empty list panics
SurfaceFormatPanics(formats) ==
  /\ \A i \in 1 .. Len(formats) : formats[i] # PreferredFormat
  /\ Len(formats) = 0

\* variant: the format alone is compared, not the color space
get_swapchain_surface_format_any_space(formats) ==
  LET hits == {i \in 1 .. Len(formats) :
                 formats[i].format = PreferredFormat.format}
  IN IF hits # {} THEN formats[CHOOSE i \in hits : \A j \in hits : i <= j]
     ELSE IF Len(formats) = 0 THEN NoFormat
     ELSE formats[1]

get_swapchain_surface_format(formats) ==
  LET hits == {i \in 1 .. Len(formats) : formats[i] = PreferredFormat}
  IN IF hits # {} THEN formats[CHOOSE i \in hits : \A j \in hits : i <= j]
     ELSE IF Len(formats) = 0 THEN NoFormat
     ELSE formats[1]

\* variant: without MAILBOX, the first mode of the list
get_swapchain_present_mode_first(present_modes) ==
  IF \E i \in 1 .. Len(present_modes) : present_modes[i] = "MAILBOX"
  THEN "MAILBOX"
  ELSE IF Len(present_modes) > 0 THEN present_modes[1]
  ELSE "FIFO"

get_swapchain_present_mode(present_modes) ==
  IF \E i \in 1 .. Len(present_modes) : present_modes[i] = "MAILBOX"
  THEN "MAILBOX"
  ELSE "FIFO"

Min(a, b) == IF a < b THEN a ELSE b
Max(a, b) == IF a > b THEN a ELSE b

\* variant: the lower bound is not applied
clamp_upper_only(min, max, v) == Min(max, v)

\* let clamp = |min, max, v| min.max(max.min(v))
clamp(min, max, v) == Max(min, Min(max, v))

get_swapchain_extent(size, capabilites) ==
  IF capabilites.current_extent.width # U32_MAX
  THEN capabilites.current_extent
  ELSE Extent2D(clamp(capabilites.min_image_extent.width,
                      capabilites.max_image_extent.width, size.width),
                clamp(capabilites.min_image_extent.height,
                      capabilites.max_image_extent.height, size.height))

\* -------------------------------------------------------- image count
\* min_image_count + 1 does not fit a u32: a build with overflow checks
\* panics there, a build without them wraps
ImageCountOverflows(capabilities) ==
  capabilities.min_image_count + 1 > U32_MAX

\* let mut image_count = min_image_count + 1, and the clamp below it
ImageCount(capabilities) ==
  LET image_count == (capabilities.min_image_count + 1) % (2 ^ Width)
  IN IF /\ capabilities.max_image_count # 0
        /\ image_count > capabilities.max_image_count
     THEN capabilities.max_image_count
     ELSE image_count

\* -------------------------------------------------------- sharing mode
\* variant: both indices pushed whatever the comparison says
SharingMode_always_pushes(indices) ==
  [image_sharing_mode |->
     IF indices.graphics # indices.present THEN "CONCURRENT"
     ELSE "EXCLUSIVE",
   queue_family_indices |-> <<indices.graphics, indices.present>>]

SharingMode(indices) ==
  IF indices.graphics # indices.present
  THEN [image_sharing_mode |-> "CONCURRENT",
        queue_family_indices |-> <<indices.graphics, indices.present>>]
  ELSE [image_sharing_mode |-> "EXCLUSIVE",
        queue_family_indices |-> <<>>]

\* vk::SwapchainCreateInfoKHR as the builder fills it
SwapchainCreateInfo(indices, support, size) ==
  LET surface_format == get_swapchain_surface_format(support.formats)
      sharing == SharingMode(indices)
  IN [min_image_count |-> ImageCount(support.capabilities),
      image_format |-> surface_format.format,
      image_color_space |-> surface_format.color_space,
      image_extent |-> get_swapchain_extent(size, support.capabilities),
      image_array_layers |-> 1,
      image_usage |-> "COLOR_ATTACHMENT",
      image_sharing_mode |-> sharing.image_sharing_mode,
      queue_family_indices |-> sharing.queue_family_indices,
      pre_transform |-> support.capabilities.current_transform,
      composite_alpha |-> "OPAQUE",
      present_mode |-> get_swapchain_present_mode(support.present_modes),
      clipped |-> TRUE,
      old_swapchain |-> "null"]

NoInfo ==
  [min_image_count |-> 0, image_format |-> "UNDEFINED",
   image_color_space |-> "UNDEFINED", image_extent |-> Extent2D(0, 0),
   image_array_layers |-> 0, image_usage |-> "", image_sharing_mode |-> "",
   queue_family_indices |-> <<>>, pre_transform |-> "",
   composite_alpha |-> "", present_mode |-> "", clipped |-> FALSE,
   old_swapchain |-> "null"]

\* ------------------------------ SwapchainData::create_swapchain_image_views
\* the vk::ImageViewCreateInfo built for one image
ImageViewCreateInfo(image, format) ==
  [image |-> image, view_type |-> "2D", format |-> format,
   components |-> "IDENTITY", aspect_mask |-> "COLOR",
   base_mip_level |-> 0, level_count |-> 1,
   base_array_layer |-> 0, layer_count |-> 0]

\* the views created for the images, in order, n of them (all when no
\* create_image_view call fails)
ImageViews(images, format, n) ==
  [i \in 1 .. n |-> ImageViewCreateInfo(images[i], format)]

\* how many images the driver makes for a request: at least one, at least
\* the requested count, possibly more
DriverImageCounts(requested) ==
  {Max(requested, 1), Max(requested, 1) + 1}

\* ------------------------------------------------------------------ state
VARIABLES
  validation,    \* the value of VALIDATION_ENABLED the build was compiled with
  layers,        \* what enumerate_instance_layer_properties answered
  pc,            \* position of main / App::create
  result,        \* what App::create returned (Ok, or the error)
  native,        \* driver-side state of each native handle
  created,       \* the resources created, in order of creation
  released,      \* the destroy calls made, in order
  data,          \* AppData
  ndev,          \* pick_physical_device: length of the enumerated list (None: no list)
  probed,        \* pick_physical_device: verdict of each device handled so far
  dev,           \* the physical device last probed (the selected one after)
  last,          \* pick_physical_device: what the last probe returned
  seen,          \* check_physical_device: the SwapchainSupport it queried
  indices,       \* the QueueFamilyIndices::get result of the running builder
  queue_info,    \* create_logical_device: the queue create infos passed
  support,       \* create_swapchain: the SwapchainSupport queried at build time
  info,          \* create_swapchain: the vk::SwapchainCreateInfoKHR passed
  window,        \* create_swapchain: the window.inner_size() it read
  images,        \* SwapchainData.images
  image_views,   \* the image views created, in order
  render_calls,  \* number of App::render calls
  destroying,    \* main: the destroying flag
  control_flow,  \* main: *control_flow
  events,        \* number of events delivered to the closure
  event,         \* main: the event the closure was last called with
  destroy_calls  \* number of App::destroy calls

pickVars == <<ndev, probed, dev, last, seen>>
chainVars ==
  <<indices, queue_info, support, info, window, images, image_views>>
loopVars ==
  <<destroying, control_flow, events, event, destroy_calls, render_calls>>

vars ==
  <<validation, layers, pc, result, native, created, released, data, ndev,
    probed, dev, last, seen, indices, queue_info, support, info, window,
    images, image_views, destroying, control_flow, events, event,
    destroy_calls, render_calls>>

Handles == {"instance", "messenger", "surface", "device", "swapchain"}

\* AppData::default(): every handle null
AppData_default ==
  [messenger |-> "null", physical_device |-> 0, graphics_queue |-> NoQueue,
   surface |-> "null", present_queue |-> NoQueue, swapchain |-> "null"]

\* the state before main runs, whatever the flag
Loaded ==
  /\ layers = "unasked"
  /\ pc = "start"
  /\ result = Ok
  /\ native = [h \in Handles |-> "null"]
  /\ created = <<>>
  /\ released = <<>>
  /\ data = AppData_default
  /\ ndev = None
  /\ probed = <<>>
  /\ dev = NoDevice
  /\ last = NoCheck
  /\ seen = NoSupport
  /\ indices = NoIndices
  /\ queue_info = <<>>
  /\ support = NoSupport
  /\ info = NoInfo
  /\ window = NoSize
  /\ images = <<>>
  /\ image_views = <<>>
  /\ render_calls = 0
  /\ destroying = FALSE
  /\ control_flow = "Poll"
  /\ events = 0
  /\ event = "none"
  /\ destroy_calls = 0

\* const VALIDATION_ENABLED: bool = true
Init ==
  /\ validation = VALIDATION_ENABLED
  /\ Loaded

\* a ? that returns the error: App::create ends without a context, and what
\* was created so far is dropped without any destroy call
Fail(e) ==
  /\ pc' = "failed"
  /\ result' = e

\* ------------------------------------------------------------ App::create
\* LibloadingLoader::new(LIBRARY)? and Entry::new(loader)?
load_entry ==
  /\ pc = "start"
  /\ \E ok \in BOOLEAN :
       IF ok THEN pc' = "loaded" /\ result' = result
       ELSE Fail(Other("loader"))
  /\ UNCHANGED <<validation, layers, native, created, released, data,
                 pickVars, chainVars, loopVars>>

\* what the driver answers to the calls of create_instance:
\* enumerate_instance_layer_properties (fails, or lists the layers without
\* or with VALIDATION_LAYER), create_instance,
\* create_debug_utils_messenger_ext
InstanceAnswers ==
  [layers : {"err", "missing", "present"},
   instance : {"ok", "err"},
   messenger : {"ok", "err"}]

\* variant: the instance is created before the layers are looked at
create_instance_steps_layers_late(flag, a) ==
  IF a.instance = "err" THEN [res |-> Native, made |-> <<>>]
  ELSE IF flag /\ a.layers = "err"
  THEN [res |-> Native, made |-> <<"instance">>]
  ELSE IF flag /\ a.layers = "missing"
  THEN [res |-> Other("Validation layer requested but not supported."),
        made |-> <<"instance">>]
  ELSE IF flag /\ a.messenger = "err"
  THEN [res |-> Native, made |-> <<"instance">>]
  ELSE [res |-> Ok,
        made |-> <<"instance">> \o (IF flag THEN <<"messenger">> ELSE <<>>)]

\* variant: the messenger is never created
create_instance_steps_no_messenger(flag, a) ==
  IF flag /\ a.layers = "err" THEN [res |-> Native, made |-> <<>>]
  ELSE IF flag /\ a.layers = "missing"
  THEN [res |-> Other("Validation layer requested but not supported."),
        made |-> <<>>]
  ELSE IF a.instance = "err" THEN [res |-> Native, made |-> <<>>]
  ELSE [res |-> Ok, made |-> <<"instance">>]

\* App::create_instance under the flag: what it returns, and what it has
\* created by then, in order
create_instance_steps(flag, a) ==
  IF flag /\ a.layers = "err" THEN [res |-> Native, made |-> <<>>]
  ELSE IF flag /\ a.layers = "missing"
  THEN [res |-> Other("Validation layer requested but not supported."),
        made |-> <<>>]
  ELSE IF a.instance = "err" THEN [res |-> Native, made |-> <<>>]
  ELSE IF flag /\ a.messenger = "err"
  THEN [res |-> Native, made |-> <<"instance">>]
  ELSE [res |-> Ok,
        made |-> <<"instance">> \o (IF flag THEN <<"messenger">> ELSE <<>>)]

\* let instance = App::create_instance(window, &entry, &mut data)?
create_instance ==
  /\ pc = "loaded"
  /\ \E a \in InstanceAnswers :
       LET r == create_instance_steps(validation, a)
           made == {r.made[i] : i \in 1 .. Len(r.made)}
       IN /\ IF r.res.kind = "ok"
             THEN pc' = "instance" /\ result' = result
             ELSE Fail(r.res)
          /\ layers' = IF validation THEN a.layers ELSE "unasked"
          /\ created' = created \o r.made
          /\ native' =
               [h \in Handles |-> IF h \in made THEN "live" ELSE native[h]]
          /\ data' =
               [data EXCEPT
                  !.messenger = IF "messenger" \in made THEN "set" ELSE @]
  /\ UNCHANGED <<validation, released, pickVars, chainVars, loopVars>>

\* data.surface = vk_window::create_surface(&instance, window)?
create_surface ==
  /\ pc = "instance"
  /\ \E ok \in BOOLEAN :
       IF ok
       THEN /\ pc' = "surface"
            /\ result' = result
            /\ native' = [native EXCEPT !.surface = "live"]
            /\ created' = Append(created, "surface")
            /\ data' = [data EXCEPT !.surface = "set"]
       ELSE /\ Fail(Native)
            /\ UNCHANGED <<native, created, data>>
  /\ UNCHANGED <<validation, layers, released, pickVars, chainVars, loopVars>>

\* -------------------------------------------------- App::pick_physical_device
\* instance.enumerate_physical_devices()?
enumerate_physical_devices ==
  /\ pc = "surface"
  /\ \/ /\ Fail(Native)
        /\ UNCHANGED ndev
     \/ \E n \in 0 .. MaxDevices :
          /\ pc' = "picking"
          /\ result' = result
          /\ ndev' = n
  /\ UNCHANGED <<validation, layers, native, created, released, data, probed,
                 dev, seen, last, chainVars, loopVars>>

\* variant: the prober stores the device it accepts
probe_device_storing ==
  /\ pc = "picking"
  /\ Len(probed) < ndev
  /\ \E d \in PhysicalDevice :
       /\ dev' = d
       /\ last' = check_physical_device(d)
       /\ seen' =
            IF \E i \in 1 .. Len(last'.queries) :
                 last'.queries[i] = "capabilities"
            THEN SelectionSupport(d)
            ELSE NoSupport
  /\ indices' = last'.indices
  /\ pc' = "checked"
  /\ data' =
       IF last'.res.kind = "ok"
       THEN [data EXCEPT !.physical_device = Len(probed) + 1]
       ELSE data
  /\ UNCHANGED <<validation, layers, result, native, created, released, ndev,
                 probed, queue_info, support, info, window, images,
                 image_views, loopVars>>

\* one iteration of the for loop, up to the return of
\* App::check_physical_device for the next device of the list; the prober
\* borrows data and writes none of its fields
probe_device ==
  /\ pc = "picking"
  /\ Len(probed) < ndev
  /\ \E d \in PhysicalDevice :
       /\ dev' = d
       /\ last' = check_physical_device(d)
       /\ seen' =
            IF \E i \in 1 .. Len(last'.queries) :
                 last'.queries[i] = "capabilities"
            THEN SelectionSupport(d)
            ELSE NoSupport
  /\ indices' = last'.indices
  /\ pc' = "checked"
  /\ UNCHANGED <<validation, layers, result, native, created, released, data,
                 ndev, probed, queue_info, support, info, window, images,
                 image_views, loopVars>>

\* the if let Err(error) branch: warn!, and the loop goes on; the device
\* and its verdict are locals of the iteration that ends here
skip_device ==
  /\ pc = "checked"
  /\ SkipsDevice(last.res)
  /\ probed' = Append(probed, last.res.kind)
  /\ dev' = NoDevice
  /\ last' = NoCheck
  /\ seen' = NoSupport
  /\ indices' = NoIndices
  /\ pc' = "picking"
  /\ UNCHANGED <<validation, layers, result, native, created, released, data,
                 ndev, queue_info, support, info, window, images, image_views,
                 loopVars>>

\* the else branch: info!, data.physical_device = physical_device, return
select_device ==
  /\ pc = "checked"
  /\ ~SkipsDevice(last.res)
  /\ probed' = Append(probed, last.res.kind)
  /\ data' = [data EXCEPT !.physical_device = Len(probed) + 1]
  /\ created' = Append(created, "physical_device")
  /\ pc' = "picked"
  /\ UNCHANGED <<validation, layers, result, native, released, ndev, dev,
                 seen, last, chainVars, loopVars>>

\* the list is exhausted: Err("Failed to find suitable physical device.")
pick_none ==
  /\ pc = "picking"
  /\ Len(probed) = ndev
  /\ Fail(Other("Failed to find suitable physical device."))
  /\ UNCHANGED <<validation, layers, native, created, released, data,
                 pickVars, chainVars, loopVars>>

\* ------------------------------------------- App::create_logical_device
\* the locals of pick_physical_device (the enumerated list, the verdicts)
\* are gone by now; dev stays, as the device behind data.physical_device
create_logical_device ==
  /\ pc = "picked"
  /\ \E later \in LaterFamilies(dev.families) :
       indices' = QueueFamilyIndices_get(later)
  /\ IF indices'.res.kind # "ok"
     THEN /\ Fail(indices'.res)
          /\ UNCHANGED <<native, created, data, queue_info>>
     ELSE \E queue_infos \in QueueCreateInfos(indices'), ok \in BOOLEAN :
            /\ queue_info' = queue_infos
            /\ IF ok
               THEN /\ pc' = "logical"
                    /\ result' = result
                    /\ native' = [native EXCEPT !.device = "live"]
                    /\ created' = Append(created, "device")
                    /\ data' =
                         [data EXCEPT
                            !.present_queue =
                              get_device_queue(indices'.present),
                            !.graphics_queue =
                              get_device_queue(indices'.graphics)]
               ELSE /\ Fail(Native)
                    /\ UNCHANGED <<native, created, data>>
  /\ ndev' = None
  /\ probed' = <<>>
  /\ last' = NoCheck
  /\ UNCHANGED <<validation, layers, released, dev, seen, support, info,
                 window, images, image_views, loopVars>>

\* ------------------------------------------------------ create_swapchain
\* the part of the builder after the create info is filled:
\* device.create_swapchain_khr(&info, None)? and, when with_views (the
\* builder of SwapchainData), get_swapchain_images_khr(chain)? and
\* create_swapchain_image_views(device, &images, &format)?
MakeChain(ci, with_views) ==
  \/ /\ Fail(Native)
     /\ UNCHANGED <<native, created, data, images, image_views>>
  \/ /\ ~with_views
     /\ pc' = "chain"
     /\ result' = result
     /\ native' = [native EXCEPT !.swapchain = "live"]
     /\ created' = Append(created, "swapchain")
     /\ data' = [data EXCEPT !.swapchain = "set"]
     /\ UNCHANGED <<images, image_views>>
  \/ /\ with_views
     /\ Fail(Native)
     /\ native' = [native EXCEPT !.swapchain = "live"]
     /\ created' = Append(created, "swapchain")
     /\ UNCHANGED <<data, images, image_views>>
  \/ /\ with_views
     /\ native' = [native EXCEPT !.swapchain = "live"]
     /\ \E n \in DriverImageCounts(ci.min_image_count) :
          \E made \in 0 .. n :
            /\ images' = [i \in 1 .. n |-> i]
            /\ image_views' = ImageViews(images', ci.image_format, made)
            /\ created' =
                 created \o <<"swapchain">>
                   \o (IF made > 0 THEN <<"image_views">> ELSE <<>>)
            /\ IF made = n
               THEN /\ pc' = "chain"
                    /\ result' = result
                    /\ data' = [data EXCEPT !.swapchain = "set"]
               ELSE /\ Fail(Native)
                    /\ UNCHANGED data

\* variant: the report the prober saw is used again
BuilderSupport_from_selection(queried) == seen

\* let support = SwapchainSupport::get(...)?: the builder derives the
\* create info from the report it has just queried; the one the prober
\* queried was a local of check_physical_device
BuilderSupport(queried) == queried

\* the builder up to the filled create info, for the surface reports and
\* window sizes given; queue_infos of create_logical_device is gone by now
BuildChainFrom(with_views, reports, sizes) ==
  /\ pc = "logical"
  /\ \E later \in LaterFamilies(dev.families) :
       indices' = QueueFamilyIndices_get(later)
  /\ queue_info' = <<>>
  /\ IF indices'.res.kind # "ok"
     THEN /\ Fail(indices'.res)
          /\ UNCHANGED <<native, created, data, support, info, window, images,
                         image_views>>
     ELSE
          \/ \E c \in {"ok", "err"}, f \in {"ok", "err"}, m \in {"ok", "err"} :
               /\ SwapchainSupport_get(c, f, m).res.kind # "ok"
               /\ Fail(SwapchainSupport_get(c, f, m).res)
               /\ UNCHANGED <<native, created, data, support, info, window,
                              images, image_views>>
          \/ \E got \in reports, size \in sizes :
               LET ci ==
                     SwapchainCreateInfo(indices', BuilderSupport(got), size)
               IN /\ support' = got
                  /\ IF SurfaceFormatPanics(got.formats)
                     THEN /\ pc' = "panicked"
                          /\ result' = Other("index out of bounds")
                          /\ UNCHANGED <<native, created, data, info, window,
                                         images, image_views>>
                     ELSE
                       \/ /\ ImageCountOverflows(got.capabilities)
                          /\ pc' = "panicked"
                          /\ result' = Other("attempt to add with overflow")
                          /\ UNCHANGED <<native, created, data, info, window,
                                         images, image_views>>
                       \/ /\ info' = ci
                          /\ window' = size
                          /\ MakeChain(ci, with_views)
  /\ UNCHANGED <<validation, layers, released, pickVars, loopVars>>

\* what SwapchainSupport::get may return at build time
SupportReports ==
  [capabilities : Capabilities, formats : FormatLists,
   present_modes : PresentModeLists]

BuildChain(with_views) ==
  BuildChainFrom(with_views, SupportReports, WindowSizes)

\* App::create_swapchain (app.rs)
App_create_swapchain == BuildChain(FALSE)

\* SwapchainData::create_swapchain (info.rs)
SwapchainData_create_swapchain == BuildChain(TRUE)

\* Ok(Self { entry, instance, data, device }) and, in main,
\* let mut destroying = false; the locals of the builder end here
create_return ==
  /\ pc = "chain"
  /\ pc' = "running"
  /\ result' = Ok
  /\ indices' = NoIndices
  /\ support' = NoSupport
  /\ info' = NoInfo
  /\ window' = NoSize
  /\ destroying' = FALSE
  /\ UNCHANGED <<validation, layers, native, created, released, data,
                 pickVars, queue_info, images, image_views, control_flow,
                 events, event, destroy_calls, render_calls>>

\* ------------------------------------------------------------ App::destroy
\* variant: the messenger destroyed whatever the flag says
DestroyCalls_always_messenger ==
  <<"messenger", "swapchain", "device", "surface", "instance">>

\* the destroy calls of App::destroy, in order
DestroyCalls ==
  (IF validation THEN <<"messenger">> ELSE <<>>)
    \o <<"swapchain", "device", "surface", "instance">>

Released(calls) == {calls[i] : i \in 1 .. Len(calls)}

destroy ==
  /\ released' = released \o DestroyCalls
  /\ native' =
       [h \in Handles |->
          IF h \in Released(DestroyCalls) THEN "destroyed" ELSE native[h]]
  /\ destroy_calls' = destroy_calls + 1

\* ------------------------------------------------- the closure of main
\* *control_flow = ControlFlow::Poll; winit keeps Exit once it is set
EnterClosure ==
  /\ pc = "running"
  /\ events < MaxEvents
  /\ events' = events + 1

Poll == IF control_flow = "Exit" THEN "Exit" ELSE "Poll"

\* variant: the arm has no guard
MainEventsCleared_unguarded ==
  /\ EnterClosure
  /\ event' = "MainEventsCleared"
  /\ control_flow' = Poll
  /\ render_calls' = render_calls + 1
  /\ UNCHANGED <<validation, layers, pc, result, native, created, released,
                 data, pickVars, chainVars, destroying, destroy_calls>>

\* Event::MainEventsCleared: render unless destroying
MainEventsCleared ==
  /\ EnterClosure
  /\ event' = "MainEventsCleared"
  /\ control_flow' = Poll
  /\ render_calls' = IF ~destroying THEN render_calls + 1 ELSE render_calls
  /\ UNCHANGED <<validation, layers, pc, result, native, created, released,
                 data, pickVars, chainVars, destroying, destroy_calls>>

\* WindowEvent::CloseRequested: destroying = true, Exit, app.destroy();
\* destroying handles that are destroyed already is undefined behaviour:
\* the process may go on or crash
CloseRequested ==
  /\ EnterClosure
  /\ event' = "CloseRequested"
  /\ destroying' = TRUE
  /\ control_flow' = "Exit"
  /\ destroy
  /\ \/ pc' = pc
     \/ destroy_calls > 0 /\ pc' = "crashed"
  /\ UNCHANGED <<validation, layers, result, created, data, pickVars,
                 chainVars, render_calls>>

\* any other event: _ => {}
OtherEvent ==
  /\ EnterClosure
  /\ event' = "Other"
  /\ control_flow' = Poll
  /\ UNCHANGED <<validation, layers, pc, result, native, created, released,
                 data, pickVars, chainVars, destroying, destroy_calls,
                 render_calls>>

\* the loop ends once control_flow is Exit; events already queued may
\* still reach the closure before that
loop_exit ==
  /\ pc = "running"
  /\ control_flow = "Exit"
  /\ pc' = "exited"
  /\ UNCHANGED <<validation, layers, result, native, created, released, data,
                 pickVars, chainVars, loopVars>>

Next ==
  \/ load_entry
  \/ create_instance
  \/ create_surface
  \/ enumerate_physical_devices
  \/ probe_device
  \/ skip_device
  \/ select_device
  \/ pick_none
  \/ create_logical_device
  \/ App_create_swapchain
  \/ SwapchainData_create_swapchain
  \/ create_return
  \/ MainEventsCleared
  \/ CloseRequested
  \/ OtherEvent
  \/ loop_exit

Spec == Init /\ [][Next]_vars

\* the program in both builds: cfg!(debug_assertions) as the flag
InitBuilds ==
  /\ validation \in BOOLEAN
  /\ Loaded

SpecBuilds == InitBuilds /\ [][Next]_vars

\* ------------------------------------------------ the surface negotiation
\* App::create just before create_swapchain, for a device whose one queue
\* family does graphics and presents
OneFamilyDevice ==
  [discrete |-> TRUE, geometry_shader |-> TRUE,
   families |-> <<[graphics |-> TRUE, support |-> "true"]>>,
   extensions |-> "all", capabilities |-> "ok", formats |-> "some",
   present_modes |-> "some"]

Selected ==
  /\ validation = VALIDATION_ENABLED
  /\ layers = "present"
  /\ pc = "logical"
  /\ result = Ok
  /\ native =
       [h \in Handles |-> IF h = "swapchain" THEN "null" ELSE "live"]
  /\ created =
       <<"instance", "messenger", "surface", "physical_device", "device">>
  /\ released = <<>>
  /\ data =
       [messenger |-> "set", physical_device |-> 1,
        graphics_queue |-> get_device_queue(0), surface |-> "set",
        present_queue |-> get_device_queue(0), swapchain |-> "null"]
  /\ ndev = None
  /\ probed = <<>>
  /\ dev = OneFamilyDevice
  /\ last = NoCheck
  /\ indices = QueueFamilyIndices_get(OneFamilyDevice.families)
  /\ queue_info = <<DeviceQueueCreateInfo(0)>>
  /\ support = NoSupport
  /\ info = NoInfo
  /\ window = NoSize
  /\ images = <<>>
  /\ image_views = <<>>
  /\ render_calls = 0
  /\ destroying = FALSE
  /\ control_flow = "Poll"
  /\ events = 0
  /\ event = "none"
  /\ destroy_calls = 0

BeforeChain ==
  /\ Selected
  /\ seen = SelectionSupport(OneFamilyDevice)

\* App::create_swapchain on every format list
negotiate_format ==
  BuildChainFrom(FALSE,
                 [capabilities : {PlainCapabilities},
                  formats : AllFormatLists,
                  present_modes : {<<"FIFO">>}],
                 {NoSize})

\* App::create_swapchain on every present-mode list
negotiate_present_mode ==
  BuildChainFrom(FALSE,
                 [capabilities : {PlainCapabilities},
                  formats : {<<PreferredFormat>>},
                  present_modes : AllPresentModeLists],
                 {NoSize})

\* App::create_swapchain on every extent report and window size
negotiate_extent ==
  BuildChainFrom(FALSE,
                 [capabilities : ExtentCapabilities,
                  formats : {<<PreferredFormat>>},
                  present_modes : {<<"FIFO">>}],
                 AllSizes)

NextNegotiation ==
  \/ negotiate_format
  \/ negotiate_present_mode
  \/ negotiate_extent

SpecNegotiation == BeforeChain /\ [][NextNegotiation]_vars

\* ------------------------------------------- selection time and build time
\* capabilities of a surface that leaves the extent to the window
OpenCapabilities ==
  [min_image_count |-> 2, max_image_count |-> 3,
   current_extent |-> Extent2D(U32_MAX, U32_MAX),
   min_image_extent |-> Extent2D(1, 1),
   max_image_extent |-> Extent2D(2, 2), current_transform |-> "IDENTITY"]

\* reports the prober may have accepted: no list is empty
SelectionReports ==
  [capabilities : {PlainCapabilities, OpenCapabilities},
   formats : {<<OtherFormat>>, <<PreferredFormat>>},
   present_modes : {<<"FIFO">>, <<"MAILBOX">>}]

\* reports the same surface may give once the builder asks again
BuildReports ==
  [capabilities : Capabilities,
   formats : {<<>>, <<OtherFormat>>, <<PreferredFormat>>},
   present_modes : {<<>>, <<"FIFO">>, <<"MAILBOX">>}]

BuildSizes == {Extent2D(0, U32_MAX), Extent2D(1, 1)}

BeforeRebuild ==
  /\ Selected
  /\ seen \in SelectionReports

\* App::create_swapchain after the surface and the window changed
rebuild_app == BuildChainFrom(FALSE, BuildReports, BuildSizes)

\* SwapchainData::create_swapchain after the surface and the window changed
rebuild_data == BuildChainFrom(TRUE, BuildReports, BuildSizes)

NextSnapshot ==
  \/ rebuild_app
  \/ rebuild_data

SpecSnapshot == BeforeRebuild /\ [][NextSnapshot]_vars

\* ======================================================== the claims

\* position in the release log of the first release of handle h (0: none)
FirstRelease(h) ==
  LET hits == {i \in 1 .. Len(released) : released[i] = h}
  IN IF hits = {} THEN 0 ELSE CHOOSE i \in hits : \A j \in hits : i <= j

ReleaseCount(h) == Cardinality({i \in 1 .. Len(released) : released[i] = h})

ReleasedBefore(a, b) ==
  /\ FirstRelease(a) # 0
  /\ FirstRelease(b) # 0
  /\ FirstRelease(a) < FirstRelease(b)

\* the image views released before the chain
ViewsReleasedBeforeChain ==
  Cardinality({i \in 1 .. Len(released) :
                 released[i] = "image_view" /\ i < FirstRelease("swapchain")})

\* C1: after a full build and one call of destroy, every image view was
\* released before the swapchain, the swapchain before the device, the
\* device before the surface, the surface before the instance, and no
\* handle was released twice.
C1_TeardownOrder ==
  destroy_calls = 1 =>
    /\ ViewsReleasedBeforeChain = Len(image_views)
    /\ ReleasedBefore("swapchain", "device")
    /\ ReleasedBefore("device", "surface")
    /\ ReleasedBefore("surface", "instance")
    /\ \A h \in Handles : ReleaseCount(h) <= 1

\* C2: App::create ends with a fully built context or with an error and no
\* context; when it ends with an error (or a panic) no native handle that an
\* earlier step created is still alive.
C2_AllOrNothing ==
  /\ pc = "running" /\ destroy_calls = 0 =>
       /\ \A h \in Handles \ {"messenger"} : native[h] = "live"
       /\ data.physical_device # 0
  /\ pc \in {"failed", "panicked"} =>
       /\ \A h \in Handles : native[h] # "live"
       /\ image_views = <<>>

\* C3: whatever events the loop delivers, App::destroy is called at most
\* once, and only after App::create returned the context.
C3_DestroyOnce ==
  /\ destroy_calls <= 1
  /\ destroy_calls > 0 => result = Ok /\ pc \in {"running", "exited"}

\* C4: a device whose probe ended in an error that is no suitability
\* failure is the last device handled: no later device is probed or
\* selected, and initialization has not gone past device selection.
C4_NativeErrorAborts ==
  \A i \in 1 .. Len(probed) :
    probed[i] \notin {"ok", "suitability"} =>
      /\ i = Len(probed)
      /\ pc \notin {"checked", "picked"}

\* ---- the checks of the prober, named as in the specification:
\* a device class, b geometry shader, c device extensions,
\* d queue-family resolution, e surface formats and present modes
CheckFails(c, d) ==
  CASE c = "a" -> ~d.discrete
    [] c = "b" -> ~d.geometry_shader
    [] c = "c" -> d.extensions # "all"
    [] c = "d" -> QueueFamilyIndices_get(d.families).res.kind # "ok"
    [] c = "e" -> \/ d.capabilities = "err"
                  \/ d.formats # "some"
                  \/ d.present_modes # "some"

\* what a check answers for a device that fails it
CheckReason(c, d) ==
  CASE c = "a" -> Suitability("Only discrete GPUs supported")
    [] c = "b" -> Suitability("Missing geometry shader support")
    [] c = "c" -> check_physical_device_extensions(d)
    [] c = "d" -> QueueFamilyIndices_get(d.families).res
    [] c = "e" -> IF DeviceSupport(d).res.kind # "ok"
                  THEN DeviceSupport(d).res
                  ELSE Suitability("Insuficient swapchain support")

\* the native queries that belong to a check
CheckQueries(c) ==
  CASE c = "a" -> {"properties"}
    [] c = "b" -> {"features"}
    [] c = "c" -> {"extensions"}
    [] c = "d" -> {"queue_families", "surface_support"}
    [] c = "e" -> {"capabilities", "formats", "present_modes"}

Asked(check) == {check.queries[i] : i \in 1 .. Len(check.queries)}

\* the prober ran its checks in this order and stopped at the first failure
ProbeFollows(order) ==
  pc = "checked" =>
    LET failing == {k \in 1 .. Len(order) : CheckFails(order[k], dev)}
    IN IF failing = {}
       THEN last.res = Ok
       ELSE LET k == CHOOSE x \in failing : \A y \in failing : x <= y
            IN /\ last.res = CheckReason(order[k], dev)
               /\ \A j \in (k + 1) .. Len(order) :
                    Asked(last) \cap CheckQueries(order[j]) = {}

\* C5 as stated: the prober checks in the order a, b, c, d, e; the reason
\* reported is that of the first failing check in this order and no later
\* check is performed.
C5_StatedOrder == ProbeFollows(<<"a", "b", "c", "d", "e">>)

\* C5 amended: the prober checks in the order a, b, d, c, e (queue-family
\* resolution before the extension check); the reason reported is that of
\* the first failing check in this order and no later check is performed.
C5_CodeOrder == ProbeFollows(<<"a", "b", "d", "c", "e">>)

\* a probed device that fails both the extension check and the queue-family
\* resolution: the reason reported is the resolver's
C5_Witness ==
  /\ pc = "checked"
  /\ dev.discrete /\ dev.geometry_shader
  /\ CheckFails("c", dev) /\ CheckFails("d", dev)
  /\ last.res = Suitability("Missing required queue families")
  /\ "extensions" \notin Asked(last)

\* C6: a probed device without the geometry-shader feature is rejected with
\* a SuitabilityError, and no queue-family, surface-support, extension or
\* surface query was made for it.
C6_GeometryShortCircuit ==
  pc = "checked" /\ ~dev.geometry_shader =>
    /\ last.res.kind = "suitability"
    /\ Asked(last) \subseteq {"properties", "features"}
    /\ last.indices = NoIndices

\* a discrete device without geometry shader whose queue families would
\* have been resolvable
C6_Witness ==
  /\ pc = "checked"
  /\ dev.discrete /\ ~dev.geometry_shader
  /\ ~CheckFails("d", dev)
  /\ last.res = Suitability("Missing geometry shader support")

AllChecks == {"a", "b", "c", "d", "e"}

\* C7: the selected device is the first of the enumeration that passes all
\* the checks, nothing is probed after it, a rejected device lets the loop go
\* on, and when the list ends without a passing device the error is the
\* 'no suitable device' one and data.physical_device is still null.
C7_FirstPassing ==
  /\ pc = "picked" =>
       /\ data.physical_device = Len(probed)
       /\ Len(probed) <= ndev
       /\ probed[Len(probed)] = "ok"
       /\ \A i \in 1 .. (Len(probed) - 1) : probed[i] # "ok"
       /\ \A c \in AllChecks : ~CheckFails(c, dev)
  /\ pc \in {"picking", "checked"} =>
       /\ data.physical_device = 0
       /\ \A i \in 1 .. Len(probed) : probed[i] # "ok"
  /\ pc = "failed" /\ ndev # None =>
       /\ result = Other("Failed to find suitable physical device.")
       /\ Len(probed) = ndev
       /\ \A i \in 1 .. Len(probed) : probed[i] # "ok"
       /\ data.physical_device = 0

\* the first device was rejected and the second one selected
C7_Witness ==
  /\ pc = "picked"
  /\ data.physical_device = 2
  /\ probed = <<"suitability", "ok">>

\* the families that can do graphics, and those that present on the surface
GraphicsFamilies(families) ==
  {i \in 1 .. Len(families) : families[i].graphics}
PresentFamilies(families) ==
  {i \in 1 .. Len(families) : families[i].support = "true"}

\* i is the index (from 0) of the lowest family of the set
IsLowest(i, set) == (i + 1) \in set /\ \A j \in set : i + 1 <= j

\* what C8 says a run of QueueFamilyIndices::get on families returns
ResolvedAsStated(got, families) ==
  IF GraphicsFamilies(families) # {} /\ PresentFamilies(families) # {}
  THEN /\ got.res = Ok
       /\ IsLowest(got.graphics, GraphicsFamilies(families))
       /\ IsLowest(got.present, PresentFamilies(families))
  ELSE got.res = Suitability("Missing required queue families")

\* a surface-support query fails before a presenting family is found
SupportQueryFails(families) ==
  \E e \in 1 .. Len(families) :
    /\ families[e].support = "err"
    /\ \A p \in PresentFamilies(families) : e < p

\* the answers the last run of get may have had: those of the device in
\* the prober, those of a later query after selection
RunFamilies ==
  IF pc \in {"checked", "picked"} THEN {dev.families}
  ELSE LaterFamilies(dev.families)

\* C8 as stated: for every queue-family list, get returns the lowest
\* graphics family and the lowest presenting family, and the 'Missing
\* required queue families' error exactly when a role has no family.
C8_Stated ==
  indices.res.kind # "none" =>
    \E families \in RunFamilies : ResolvedAsStated(indices, families)

\* C8 amended: the same, for the lists on which no surface-support query
\* fails before a presenting family is found; when one does, get returns the
\* error of that query and no indices.
C8_Resolver ==
  indices.res.kind # "none" =>
    \E families \in RunFamilies :
      IF SupportQueryFails(families)
      THEN indices.res = Native
      ELSE ResolvedAsStated(indices, families)

\* a device with two graphics families whose second family is the first
\* to present: graphics 0, present 1
C8_Witness ==
  /\ pc = "checked"
  /\ Len(dev.families) = 2
  /\ dev.families[1].graphics /\ dev.families[2].graphics
  /\ indices.res = Ok
  /\ indices.graphics = 0 /\ indices.present = 1

Occurrences(x, seq) == Cardinality({i \in 1 .. Len(seq) : seq[i] = x})

\* C9: in the create info of the swapchain, equal graphics and present
\* indices give EXCLUSIVE with an empty index list, different ones give
\* CONCURRENT with the two indices, each once.
C9_SharingMode ==
  info # NoInfo =>
    IF indices.graphics = indices.present
    THEN /\ info.image_sharing_mode = "EXCLUSIVE"
         /\ info.queue_family_indices = <<>>
    ELSE /\ info.image_sharing_mode = "CONCURRENT"
         /\ Len(info.queue_family_indices) = 2
         /\ Occurrences(indices.graphics, info.queue_family_indices) = 1
         /\ Occurrences(indices.present, info.queue_family_indices) = 1

\* a chain built for a device whose graphics and present families are the same
C9_Witness ==
  /\ pc = "chain"
  /\ indices.res = Ok
  /\ indices.graphics = indices.present
  /\ info.image_sharing_mode = "EXCLUSIVE"

\* C10: the image count requested is min_image_count + 1, or max_image_count
\* when that is nonzero and smaller; it is never below min_image_count nor
\* above a nonzero max_image_count, for every u32 min_image_count; computing
\* it never fails.
C10_ImageCount ==
  /\ result # Other("attempt to add with overflow")
  /\ info # NoInfo =>
       LET min == support.capabilities.min_image_count
           max == support.capabilities.max_image_count
       IN /\ info.min_image_count =
               (IF max # 0 /\ min + 1 > max THEN max ELSE min + 1)
          /\ info.min_image_count >= min
          /\ max # 0 => info.min_image_count <= max

\* ---------------------------------------------------------------------
\* v brought into [lo, hi], said without min and max
Into(lo, hi, v) == IF v < lo THEN lo ELSE IF v > hi THEN hi ELSE v

\* the builder filled a create info from the report in support
Negotiated == info # NoInfo

\* C11: the extent of the create info is current_extent as reported when
\* current_extent.width is not u32::MAX; when it is u32::MAX the extent is
\* the window size with width and height each brought into
\* [min_image_extent, max_image_extent] on its own axis, so it lies
\* within these bounds on both axes.
C11_Extent ==
  Negotiated =>
    LET c == support.capabilities
        e == info.image_extent
    IN IF c.current_extent.width # U32_MAX
       THEN e = c.current_extent
       ELSE /\ e.width =
                 Into(c.min_image_extent.width, c.max_image_extent.width,
                      window.width)
            /\ e.height =
                 Into(c.min_image_extent.height, c.max_image_extent.height,
                      window.height)
            /\ c.min_image_extent.width <= e.width
            /\ e.width <= c.max_image_extent.width
            /\ c.min_image_extent.height <= e.height
            /\ e.height <= c.max_image_extent.height

\* the window is too narrow and too tall: the width is raised to the
\* minimum and the height lowered to the maximum
C11_Witness ==
  /\ Negotiated
  /\ support.capabilities.current_extent.width = U32_MAX
  /\ window.width < support.capabilities.min_image_extent.width
  /\ window.height > support.capabilities.max_image_extent.height
  /\ support.capabilities.min_image_extent.height
       < support.capabilities.max_image_extent.height
  /\ info.image_extent =
       Extent2D(support.capabilities.min_image_extent.width,
                support.capabilities.max_image_extent.height)

\* C12: format selection is a function of the list: the format of the
\* create info is the first entry equal to (B8G8R8A8_SRGB, SRGB_NONLINEAR)
\* when the list has one, and the first element of the list otherwise.
C12_FormatChoice ==
  Negotiated =>
    LET formats == support.formats
        chosen == [format |-> info.image_format,
                   color_space |-> info.image_color_space]
    IN IF \E i \in 1 .. Len(formats) : formats[i] = PreferredFormat
       THEN chosen = PreferredFormat
       ELSE Len(formats) > 0 /\ chosen = formats[1]

\* a list of two different entries, none the preferred one, the first of
\* them in the preferred format but another color space
C12_Witness ==
  /\ Negotiated
  /\ support.formats = <<HalfFormat, OtherFormat>>
  /\ info.image_format = HalfFormat.format
  /\ info.image_color_space = HalfFormat.color_space

\* C13: format selection never fails: the builder never panics on the
\* list it queries at build time.
C13_FormatNeverFails ==
  ~(pc = "panicked" /\ result = Other("index out of bounds"))

\* C14: present-mode selection never fails: the mode of the create info
\* is MAILBOX when MAILBOX is in the list and FIFO otherwise.
C14_PresentMode ==
  Negotiated =>
    LET present_modes == support.present_modes
    IN /\ info.present_mode \in {"MAILBOX", "FIFO"}
       /\ info.present_mode = "MAILBOX"
            <=> \E i \in 1 .. Len(present_modes) :
                  present_modes[i] = "MAILBOX"

\* a list without MAILBOX and without FIFO
C14_Witness ==
  /\ Negotiated
  /\ support.present_modes = <<"IMMEDIATE">>
  /\ info.present_mode = "FIFO"

\* ---------------------------------------------------------------------
Range(seq) == {seq[i] : i \in 1 .. Len(seq)}

\* the stages of creation, in the stated order
CreationOrder ==
  <<"instance", "surface", "physical_device", "device", "swapchain",
    "image_views">>

IsStage(r) == r # "messenger"

\* App::create returned Ok
CreateSucceeded == pc \in {"running", "exited", "crashed"}

\* C15: creation follows the order Instance, Surface, selected
\* PhysicalDevice, LogicalDevice, PresentationChain, ImageViews: the
\* stages created so far are always a prefix of this order (none before
\* its predecessor, none repeated, none skipped), and a create that
\* succeeded has created all of them.
C15_CreationOrder ==
  LET stages == SelectSeq(created, IsStage)
  IN /\ Len(stages) <= Len(CreationOrder)
     /\ \A i \in 1 .. Len(stages) : stages[i] = CreationOrder[i]
     /\ CreateSucceeded => stages = CreationOrder

\* C16: create_logical_device passes one queue create info per distinct
\* family among graphics and present (one when they are equal, two of
\* different families when they differ, no family twice), and the
\* graphics and present queues it stores are queue 0 of their families.
C16_QueueInfos ==
  /\ queue_info # <<>> =>
       LET family == [k \in 1 .. Len(queue_info) |->
                        queue_info[k].queue_family_index]
       IN /\ Range(family) = {indices.graphics, indices.present}
          /\ Len(family) =
               IF indices.graphics = indices.present THEN 1 ELSE 2
          /\ \A j, k \in 1 .. Len(family) :
               j # k => family[j] # family[k]
  /\ pc = "logical" =>
       /\ data.graphics_queue = [family |-> indices.graphics, index |-> 0]
       /\ data.present_queue = [family |-> indices.present, index |-> 0]

C16_Witness ==
  /\ pc = "logical"
  /\ indices.graphics # indices.present
  /\ Len(queue_info) = 2
  /\ data.graphics_queue.family # data.present_queue.family

\* C17: the messenger is created exactly when the flag is enabled; every
\* destroy call of a build with the flag destroys the messenger before
\* it destroys the instance, and a build without the flag never destroys
\* a messenger.
C17_Messenger ==
  /\ "messenger" \in Range(created) => validation
  /\ (validation /\ pc \notin {"start", "loaded", "failed"})
       => "messenger" \in Range(created)
  /\ IF validation
     THEN \A j \in 1 .. Len(released) :
            released[j] = "instance" =>
              \E i \in 1 .. j - 1 :
                /\ released[i] = "messenger"
                /\ \A k \in i .. j - 1 : released[k] # "instance"
     ELSE "messenger" \notin Range(released)

\* a build without the flag has run destroy
C17_Witness ==
  /\ ~validation
  /\ destroy_calls = 1
  /\ released = <<"swapchain", "device", "surface", "instance">>
  /\ native.messenger = "null"

\* C18: every handle destroy has released was created by a step of
\* App::create, and the fields of AppData destroy reads were set.
C18_ReleasedWereCreated ==
  /\ Range(released) \subseteq Range(created)
  /\ destroy_calls > 0 =>
       /\ validation => data.messenger = "set"
       /\ data.swapchain = "set"
       /\ data.surface = "set"

C18_Witness ==
  /\ destroy_calls = 1
  /\ validation
  /\ Range(released) = Handles

\* C19: a step of check_physical_device leaves AppData as it was, and
\* data.physical_device changes only in the step of pick_physical_device
\* that follows a passing probe, to the device probed.
C19_ProberPure ==
  [][/\ (pc = "picking" /\ pc' = "checked") => data' = data
     /\ data'.physical_device # data.physical_device =>
          /\ pc = "checked" /\ pc' = "picked"
          /\ last.res = Ok
          /\ data'.physical_device = Len(probed) + 1
          /\ data' = [data EXCEPT !.physical_device = Len(probed) + 1]]_vars

\* a device has passed the prober and AppData is still the default one
\* but for what create_instance and create_surface set
C19_Witness ==
  /\ pc = "checked"
  /\ last.res = Ok
  /\ Len(probed) = 1
  /\ data.physical_device = 0

\* C20: with the flag enabled and the validation layer not among the
\* layers enumerated, create_instance returns its error with nothing
\* created: no instance, no messenger, and App::create has failed.
C20_MissingLayer ==
  (validation /\ layers = "missing") =>
    /\ pc = "failed"
    /\ result = Other("Validation layer requested but not supported.")
    /\ created = <<>>
    /\ native.instance = "null"
    /\ native.messenger = "null"
    /\ data.messenger = "null"

C20_Witness ==
  /\ validation
  /\ layers = "missing"
  /\ pc = "failed"

\* ---------------------------------------------------------------------
\* the builder of SwapchainData returned Ok: the images were fetched and
\* every create_image_view call succeeded
ViewsBuilt == pc \in {"chain", "running", "exited", "crashed"} /\ images # <<>>

\* C21: after the chain is created there is one image view per image the
\* driver returned, view i on image i, each with a color-aspect range of
\* one mip level and one array layer.
C21_ImageViews ==
  ViewsBuilt =>
    /\ Len(image_views) = Len(images)
    /\ \A i \in 1 .. Len(image_views) :
         /\ image_views[i].image = images[i]
         /\ image_views[i].aspect_mask = "COLOR"
         /\ image_views[i].level_count = 1
         /\ image_views[i].layer_count = 1

\* ---------------------------------------------------------------------
\* the four values a report and a window size give the create info
Derived(report, size) ==
  [format |-> get_swapchain_surface_format(report.formats),
   present_mode |-> get_swapchain_present_mode(report.present_modes),
   extent |-> get_swapchain_extent(size, report.capabilities),
   image_count |-> ImageCount(report.capabilities)]

\* the four values in the create info passed
Passed ==
  [format |-> [format |-> info.image_format,
               color_space |-> info.image_color_space],
   present_mode |-> info.present_mode,
   extent |-> info.image_extent,
   image_count |-> info.min_image_count]

\* C22: the format, present mode, extent and image count passed to the
\* swapchain creation are those of the report and the window size queried
\* at build time, whatever the prober saw at selection time.
C22_BuildTimeSnapshot ==
  Negotiated => Passed = Derived(support, window)

\* the report changed in every part since selection, and each of the four
\* values passed differs from what the report of the prober gives
C22_Witness ==
  /\ Negotiated
  /\ seen \in SelectionReports
  /\ Passed = Derived(support, window)
  /\ \A size \in BuildSizes :
       /\ Passed.format # Derived(seen, size).format
       /\ Passed.present_mode # Derived(seen, size).present_mode
       /\ Passed.extent # Derived(seen, size).extent
       /\ Passed.image_count # Derived(seen, size).image_count

\* ---------------------------------------------------------------------
\* C23: the run of QueueFamilyIndices::get in create_logical_device and
\* the one in create_swapchain return the pair the run of the prober
\* returned for the selected device; the queues of the device are those
\* of this pair and the sharing mode of the swapchain is built from it.
C23_SameIndices ==
  [][/\ (pc \in {"picked", "logical"} /\ indices'.res = Ok) =>
          /\ indices.res = Ok
          /\ indices'.graphics = indices.graphics
          /\ indices'.present = indices.present
     /\ (pc = "picked" /\ pc' = "logical") =>
          /\ data'.graphics_queue.family = indices.graphics
          /\ data'.present_queue.family = indices.present
     /\ (pc = "logical" /\ info' # NoInfo) =>
          LET g == data.graphics_queue.family
              p == data.present_queue.family
          IN /\ indices'.graphics = g
             /\ indices'.present = p
             /\ info'.queue_family_indices =
                  IF g # p THEN <<g, p>> ELSE <<>>]_vars

\* the three runs are over, for a device whose graphics family is not
\* the first one
C23_Witness ==
  /\ pc = "chain"
  /\ info # NoInfo
  /\ indices.res = Ok
  /\ indices.graphics = 1 /\ indices.present = 0
  /\ data.graphics_queue = [family |-> 1, index |-> 0]
  /\ data.present_queue = [family |-> 0, index |-> 0]
  /\ info.queue_family_indices = <<1, 0>>

\* ---------------------------------------------------------------------
\* C24: once App::destroy has been called, no step calls App::render: a
\* MainEventsCleared event handled after a CloseRequested event leaves
\* the number of render calls as it is.
C24_NoRenderAfterDestroy ==
  [][destroy_calls > 0 => render_calls' = render_calls]_vars

\* a MainEventsCleared event was handled after the CloseRequested event
\* that destroyed the context, and nothing was rendered
C24_Witness ==
  /\ destroy_calls = 1
  /\ destroying
  /\ events = 2
  /\ event = "MainEventsCleared"
  /\ render_calls = 0

====
